---- MODULE Spec2Model ----
(***************************************************************************)
(* A model of the sky provisioning utility: the creation-mode decorators   *)
(* (sky/decorators.py), the argument validation of canvas.py and the       *)
(* EC2 / ELB orchestration of sky/compute.py.  The cloud provider is the   *)
(* environment: what it answers is a nondeterministic choice.              *)
(***************************************************************************)
EXTENDS Integers, Sequences, FiniteSets, TLC

None == "None"

Last(s) == s[Len(s)]

Min(a, b) == IF a < b THEN a ELSE b

SeqsUpTo(S, n) == UNION {[1..k -> S] : k \in 0..n}

(***************************************************************************)
(* sky/decorators.py                                                       *)
(***************************************************************************)
VARIABLES
    CREATION_MODE,  \* core.CREATION_MODE
    wrappers,       \* per function: the bare decorators applied, innermost first
    category,       \* the category of the one Infrastructure object
    frames          \* the Python call stack, innermost frame last

decVars == <<CREATION_MODE, wrappers, category, frames>>

EPHEMERAL == "EPHEMERAL"
PERMANENT == "PERMANENT"
Modes == {EPHEMERAL, PERMANENT}

Functions == {"f", "g"}

\* Bounds of the decorator model.
MaxWrap == 2
MaxDepth == 3

\* invoked = bool(args and not callable(args[0]) or kwargs); the argument is
\* a plain function, an Infrastructure object (callable) or a non-callable.
Invoked(arg, kwargs) == (arg # None /\ arg \notin {"function", "infrastructure"}) \/ kwargs

ModeSetByMutant(kind) == PERMANENT

\* The assignment the wrapper of a bare decorator makes before the call.
ModeSetBy(kind) == kind

DecInit ==
    /\ CREATION_MODE \in Modes
    /\ wrappers = [f \in Functions |-> <<>>]
    /\ category = None
    /\ frames = <<>>

\* @ephemeral / @permanent above a function definition (module import time).
DecorateFunction(kind, f) ==
    /\ frames = <<>>
    /\ ~Invoked("function", FALSE)
    /\ Len(wrappers[f]) < MaxWrap
    /\ wrappers' = [wrappers EXCEPT ![f] = Append(@, kind)]
    /\ UNCHANGED <<CREATION_MODE, category, frames>>

\* @ephemeral / @permanent above an Infrastructure object, or invoked with
\* arguments: the result is an Infrastructure object of that category.
DecorateInfrastructure(kind, arg, kwargs) ==
    /\ frames = <<>>
    /\ \/ ~Invoked(arg, kwargs) /\ arg = "infrastructure"
       \/ Invoked(arg, kwargs)
    /\ category' = kind
    /\ UNCHANGED <<CREATION_MODE, wrappers, frames>>

\* A frame is a wrapper (level >= 1: the level-th decorator of fn) or the
\* function itself (level 0); by is the mode its caller's wrapper has set.
Frame(fn, level, by) == [fn |-> fn, level |-> level, by |-> by, at |-> "start"]

\* A call of the decorated name f: the outermost wrapper runs first.
CallFunction(f) ==
    /\ Len(frames) < MaxDepth
    /\ IF frames = <<>> THEN TRUE
       ELSE Last(frames).level = 0 /\ Last(frames).at = "running"
    /\ frames' = Append(frames, Frame(f, Len(wrappers[f]), None))
    /\ UNCHANGED <<CREATION_MODE, wrappers, category>>

\* decorator(*args, **kwargs): core.CREATION_MODE = <kind>; return function(...)
WrapperRuns ==
    /\ frames # <<>>
    /\ Last(frames).level >= 1 /\ Last(frames).at = "start"
    /\ LET top == Last(frames)
           kind == wrappers[top.fn][top.level]
       IN /\ CREATION_MODE' = ModeSetBy(kind)
          /\ frames' = Append([frames EXCEPT ![Len(frames)].at = "running"],
                              Frame(top.fn, top.level - 1, kind))
    /\ UNCHANGED <<wrappers, category>>

\* The first statement of an undecorated function body.
BodyStarts ==
    /\ frames # <<>>
    /\ Last(frames).level = 0 /\ Last(frames).at = "start"
    /\ frames' = [frames EXCEPT ![Len(frames)].at = "running"]
    /\ UNCHANGED <<CREATION_MODE, wrappers, category>>

\* Any code may assign core.CREATION_MODE while a body runs.
BodyAssignsMode(m) ==
    /\ frames # <<>>
    /\ Last(frames).level = 0 /\ Last(frames).at = "running"
    /\ CREATION_MODE' = m
    /\ UNCHANGED <<wrappers, category, frames>>

Returns ==
    /\ frames # <<>>
    /\ Last(frames).at = "running"
    /\ frames' = SubSeq(frames, 1, Len(frames) - 1)
    /\ UNCHANGED <<CREATION_MODE, wrappers, category>>

(***************************************************************************)
(* canvas.py: parse_arguments.  Strings are sequences of characters.       *)
(***************************************************************************)
VARIABLES
    argv,            \* what the command line, the environment and the files give
    apc,             \* the statement parse_arguments is at
    valid_arguments, \* the local flag
    args_key_id,     \* args.key_id, reassigned at line 112
    args_key,        \* args.key, reassigned at line 123
    reported,        \* the error messages printed or logged so far
    raised,          \* the exception that left parse_arguments, if any
    exit_status      \* the exit status of the process, once it has ended

argVars == <<argv, apc, valid_arguments, args_key_id, args_key, reported, raised, exit_status>>

Rep(c, n) == [i \in 1..n |-> c]

LowerCase == <<"a","b","c","d","e","f","g","h","i","j","k","l","m",
               "n","o","p","q","r","s","t","u","v","w","x","y","z">>
UpperCase == <<"A","B","C","D","E","F","G","H","I","J","K","L","M",
               "N","O","P","Q","R","S","T","U","V","W","X","Y","Z">>
Digits == <<"0","1","2","3","4","5","6","7","8","9">>

Range(s) == {s[i] : i \in DOMAIN s}

\* \d, and [A-Z0-9] under re.IGNORECASE.
DigitChars == Range(Digits)
AlnumChars == Range(Digits) \cup Range(LowerCase) \cup Range(UpperCase)

\* str.upper() on one character and on a string.
UpperChar(c) ==
    IF \E i \in DOMAIN LowerCase : LowerCase[i] = c
    THEN UpperCase[CHOOSE i \in DOMAIN LowerCase : LowerCase[i] = c]
    ELSE c
Upper(s) == [i \in DOMAIN s |-> UpperChar(s[i])]

\* The lengths the three patterns ask for.
AccountIdLen == 12
KeyIdLen == 20
SecretKeyLen == 40

\* re.search('^<class>{n}$', s): '$' matches at the end of the string and
\* also just before a newline that ends it.
SearchExactly(s, n, class) ==
    /\ Len(s) = n \/ (Len(s) = n + 1 /\ s[n + 1] = "\n")
    /\ \A i \in 1..n : s[i] \in class

\* re.search(r'^\d{12}$', args.account_id)
MatchAccountId(s) == SearchExactly(s, AccountIdLen, DigitChars)

\* re.search(r'^[A-Z0-9]{20}$', args.key_id, re.IGNORECASE)
MatchKeyId(s) == SearchExactly(s, KeyIdLen, AlnumChars)

SecretChars == AlnumChars \cup {"/", "+"}

\* re.search(r'^[A-Z0-9/\+]{40}$', args.key, re.IGNORECASE)
MatchSecretKey(s) == SearchExactly(s, SecretKeyLen, SecretChars)

LogLevels == {<<"D","E","B","U","G">>, <<"I","N","F","O">>, <<"W","A","R","N","I","N","G">>,
              <<"E","R","R","O","R">>, <<"C","R","I","T","I","C","A","L">>}

\* The upper-case names of the logging module whose value is an int.
LoggingIntNames == LogLevels \cup {<<"W","A","R","N">>, <<"F","A","T","A","L">>,
                                   <<"N","O","T","S","E","T">>}

\* Python's None where a string is expected (an option not given whose
\* environment variable is unset), kept apart from every string of characters.
Missing == <<"None">>

LogLevelPool == {<<"E","R","R","O","R">>, <<"d","e","b","u","g">>, <<"w","a","r","n">>,
                 <<"v","e","r","b","o","s","e">>}
AccountIdPool == {Missing, <<>>, Rep("1", 12), Rep("1", 11), Rep("7", 11) \o <<"a">>,
                  Rep("1", 12) \o <<"\n">>}
KeyIdPool == {Missing, <<>>, Rep("A", 19) \o <<"9">>, Rep("k", 20), Rep("A", 19) \o <<"/">>,
              Rep("A", 21)}
SecretKeyPool == {Missing, <<>>, Rep("s", 38) \o <<"/", "+">>, Rep("s", 39) \o <<"=">>,
                  Rep("S", 39)}
\* The boto configuration file: absent, unreadable (or without credentials),
\* or giving both credentials.
ConfigPool == {[state |-> st, key_id |-> Missing, key |-> Missing] :
                  st \in {"absent", "unreadable"}} \cup
              {[state |-> "read", key_id |-> k, key |-> x] :
                  k \in {Rep("k", 20), Rep("A", 21)}, x \in {Rep("s", 38) \o <<"/", "+">>}}

Truthy(v) == v # Missing /\ v # <<>>

ArgInit ==
    /\ argv \in [loglevel : LogLevelPool, isdir : BOOLEAN, account_id : AccountIdPool,
                 key_id : KeyIdPool, key : SecretKeyPool, config : ConfigPool,
                 main : BOOLEAN]
    /\ apc = "loglevel"
    /\ valid_arguments = TRUE
    /\ args_key_id = argv.key_id
    /\ args_key = argv.key
    /\ reported = {}
    /\ raised = None
    /\ exit_status = None

\* An exception no handler of parse_arguments catches: in the main program
\* the interpreter prints the traceback and exits with status 1.
Uncaught(exc) ==
    /\ raised' = exc
    /\ apc' = "raised"
    /\ exit_status' = IF argv.main THEN 1 ELSE None

\* Lines 66-71: the log level, then configure_logger (lines 142-146), whose
\* raise names the undefined loglevel and so ends in a NameError.
CheckLogLevel ==
    /\ apc = "loglevel"
    /\ LET ok == Upper(argv.loglevel) \in LogLevels
           flag == valid_arguments /\ ok
           said == IF ok THEN reported ELSE reported \cup {"Invalid log option"}
       IN /\ valid_arguments' = flag
          /\ reported' = said
          /\ IF Upper(argv.loglevel) \in LoggingIntNames
             THEN apc' = "directory" /\ UNCHANGED <<raised, exit_status>>
             ELSE Uncaught("NameError")
    /\ UNCHANGED <<argv, args_key_id, args_key>>

\* Lines 73-78.
CheckDirectory ==
    /\ apc = "directory"
    /\ IF argv.isdir
       THEN UNCHANGED <<valid_arguments, reported>>
       ELSE /\ valid_arguments' = FALSE
            /\ reported' = reported \cup {"Invalid Django project directory"}
    /\ apc' = "account_id"
    /\ UNCHANGED <<argv, args_key_id, args_key, raised, exit_status>>

\* Lines 80-88: re.search raises TypeError on None, which is no AssertionError.
CheckAccountId ==
    /\ apc = "account_id"
    /\ IF argv.account_id = Missing
       THEN Uncaught("TypeError") /\ UNCHANGED <<valid_arguments, reported>>
       ELSE /\ IF MatchAccountId(argv.account_id)
               THEN UNCHANGED <<valid_arguments, reported>>
               ELSE /\ valid_arguments' = FALSE
                    /\ reported' = reported \cup
                          {IF Len(argv.account_id) > 0
                           THEN "AWS Account ID must be exactly 12 digits"
                           ELSE "AWS Account ID not specified"}
            /\ apc' = "key_id"
            /\ UNCHANGED <<raised, exit_status>>
    /\ UNCHANGED <<argv, args_key_id, args_key>>

\* Lines 90-109 bind the locals key_id and key only when a configuration file
\* was found and read.
ConfigBound == argv.config.state = "read"

ReadConfig(said) ==
    IF argv.config.state = "unreadable" THEN said \cup {"Could not read configuration file"} ELSE said

\* Lines 111-120: args.key_id or key_id reads the local key_id, unbound when
\* no configuration was read (UnboundLocalError).
CheckKeyId ==
    /\ apc = "key_id"
    /\ IF ~Truthy(args_key_id) /\ ~ConfigBound
       THEN /\ Uncaught("UnboundLocalError")
            /\ reported' = ReadConfig(reported)
            /\ UNCHANGED <<valid_arguments, args_key_id>>
       ELSE LET v == IF Truthy(args_key_id) THEN args_key_id ELSE argv.config.key_id
            IN /\ args_key_id' = v
               /\ IF MatchKeyId(v)
                  THEN reported' = ReadConfig(reported) /\ UNCHANGED valid_arguments
                  ELSE /\ valid_arguments' = FALSE
                       /\ reported' = ReadConfig(reported) \cup
                             {IF Len(v) > 0
                              THEN "AWS Access Key ID must contain 20 alphanumeric characters"
                              ELSE "AWS Access Key ID not specified"}
               /\ apc' = "key"
               /\ UNCHANGED <<raised, exit_status>>
    /\ UNCHANGED <<argv, args_key>>

\* Lines 122-132.
CheckSecretKey ==
    /\ apc = "key"
    /\ IF ~Truthy(args_key) /\ ~ConfigBound
       THEN Uncaught("UnboundLocalError") /\ UNCHANGED <<valid_arguments, args_key, reported>>
       ELSE LET v == IF Truthy(args_key) THEN args_key ELSE argv.config.key
            IN /\ args_key' = v
               /\ IF MatchSecretKey(v)
                  THEN UNCHANGED <<valid_arguments, reported>>
                  ELSE /\ valid_arguments' = FALSE
                       /\ reported' = reported \cup
                             {IF Len(v) > 0
                              THEN "AWS Account Secret Access Key must contain 40 characters"
                              ELSE "AWS Account Secret Access Key not specified"}
               /\ apc' = "verdict"
               /\ UNCHANGED <<raised, exit_status>>
    /\ UNCHANGED <<argv, args_key_id>>

\* Lines 134-140.
Verdict ==
    /\ apc = "verdict"
    /\ IF valid_arguments
       THEN apc' = "returned" /\ UNCHANGED <<reported, exit_status>>
       ELSE /\ reported' = reported \cup {"Invalid arguments given."}
            /\ IF argv.main
               THEN apc' = "exited" /\ exit_status' = 1
               ELSE apc' = "returned" /\ UNCHANGED exit_status
    /\ UNCHANGED <<argv, valid_arguments, args_key_id, args_key, raised>>

(***************************************************************************)
(* sky/compute.py: get_nat_image.                                          *)
(***************************************************************************)
VARIABLES
    catalog,      \* the images Amazon publishes, in the order the API lists them
    paravirtual,  \* the argument of get_nat_image
    images,       \* the local images: the answer of get_all_images
    image,        \* the image returned
    ipc           \* the statement get_nat_image is at

imgVars == <<catalog, paravirtual, images, image, ipc>>

\* Bounds of the image model.
MaxImages == 2
Years == {2014, 2015}
Months == {3, 9}
Patches == {0, 1}

Digit(n) == Digits[n + 1]

\* Amazon's image names: amzn-ami-vpc-nat-<pv|hvm>-<yyyy>.<mm>.<p>.x86_64-ebs
FormatDate(d) ==
    <<Digit(d[1] \div 1000), Digit((d[1] \div 100) % 10), Digit((d[1] \div 10) % 10),
      Digit(d[1] % 10), ".", Digit(d[2] \div 10), Digit(d[2] % 10), ".", Digit(d[3])>>

NatPrefix(virt) == <<"a","m","z","n","-","a","m","i","-","v","p","c","-","n","a","t","-">> \o virt

ImageName(virt, d) ==
    NatPrefix(virt) \o <<"-">> \o FormatDate(d) \o <<".","x","8","6","_","6","4","-","e","b","s">>

PV == <<"p","v">>
HVM == <<"h","v","m">>

Image(virt, d) == [name |-> ImageName(virt, d), date |-> d]

ImagePool == {Image(v, <<y, m, p>>) : v \in {PV, HVM}, y \in Years, m \in Months, p \in Patches}

\* The characters of the names in code point order.
CodePoints == <<"\n", "+", "-", ".", "/">> \o Digits \o <<"=">> \o UpperCase \o <<"_">> \o LowerCase
Ord(c) == CHOOSE i \in DOMAIN CodePoints : CodePoints[i] = c

\* a < b on Python strings.
RECURSIVE StrLess(_, _)
StrLess(a, b) ==
    IF b = <<>> THEN FALSE
    ELSE IF a = <<>> THEN TRUE
    ELSE IF a[1] # b[1] THEN Ord(a[1]) < Ord(b[1])
    ELSE StrLess(Tail(a), Tail(b))

\* str.split(sep), sep one character: the pieces between the separators.
Split(s, sep) ==
    LET at == {i \in DOMAIN s : s[i] = sep}
        n == Cardinality(at) + 1
        Nth(k) == CHOOSE i \in at : Cardinality({j \in at : j < i}) = k - 1
    IN [k \in 1..n |-> SubSeq(s, IF k = 1 THEN 1 ELSE Nth(k - 1) + 1,
                                 IF k = n THEN Len(s) ELSE Nth(k) - 1)]

SortKeyMutant(x) == Split(x.name, "-")[5]

\* key=lambda x: x.name.split('-')[5]
SortKey(x) == Split(x.name, "-")[6]

\* sorted(xs, key=SortKey): ascending and stable.
RECURSIVE InsertSorted(_, _)
InsertSorted(x, xs) ==
    IF xs = <<>> THEN <<x>>
    ELSE IF StrLess(SortKey(x), SortKey(Last(xs))) 
         THEN Append(InsertSorted(x, SubSeq(xs, 1, Len(xs) - 1)), Last(xs))
         ELSE Append(xs, x)

RECURSIVE Sorted(_)
Sorted(xs) ==
    IF xs = <<>> THEN <<>>
    ELSE InsertSorted(Last(xs), Sorted(SubSeq(xs, 1, Len(xs) - 1)))

StartsWith(s, prefix) == Len(s) >= Len(prefix) /\ SubSeq(s, 1, Len(prefix)) = prefix

RECURSIVE FilterByName(_, _)
FilterByName(xs, prefix) ==
    IF xs = <<>> THEN <<>>
    ELSE IF StartsWith(xs[1].name, prefix)
         THEN <<xs[1]>> \o FilterByName(Tail(xs), prefix)
         ELSE FilterByName(Tail(xs), prefix)

\* get_all_images(filters={'name': 'amzn-ami-vpc-nat-' + ('pv' if paravirtual else 'hvm') + '*'})
GetAllImages(pv) == FilterByName(catalog, NatPrefix(IF pv THEN PV ELSE HVM))

ImgInit ==
    /\ catalog \in SeqsUpTo(ImagePool, MaxImages)
    /\ paravirtual \in BOOLEAN
    /\ images = <<>>
    /\ image = None
    /\ ipc = "get_all_images"

\* Lines 496-497.
QueryImages ==
    /\ ipc = "get_all_images"
    /\ images' = GetAllImages(paravirtual)
    /\ ipc' = "sorted"
    /\ UNCHANGED <<catalog, paravirtual, image>>

\* Lines 500-501: [-1] of an empty list raises IndexError.
PickImage ==
    /\ ipc = "sorted"
    /\ IF images = <<>>
       THEN ipc' = "raised" /\ UNCHANGED image
       ELSE ipc' = "returned" /\ image' = Last(Sorted(images))
    /\ UNCHANGED <<catalog, paravirtual, images>>

ImgIdle ==
    /\ catalog = <<>>
    /\ paravirtual = FALSE
    /\ images = <<>>
    /\ image = None
    /\ ipc = "idle"

(***************************************************************************)
(* sky/compute.py: rotate_instances, register_instances,                   *)
(* deregister_instances, terminate_instances.                              *)
(***************************************************************************)
VARIABLES
    lb_instances,      \* the ids the load balancer holds (ELB's state)
    held,              \* load_balancer.instances as the caller's object has it
    old_instances,     \* the local old_instances
    instances,         \* the argument instances: a list the loop removes from
    terminate_outgoing_instances,
    instance_states,   \* the answer of the latest get_instance_health
    in_service,        \* the ids the for loop at line 604 has still to visit
    terminated,        \* the ids EC2 was asked to terminate
    polls,             \* get_instance_health calls so far, counted up to MaxPolls
    rpc                \* the statement rotate_instances is at

rotVars == <<lb_instances, held, old_instances, instances, terminate_outgoing_instances,
             instance_states, in_service, terminated, polls, rpc>>

\* Bounds of the rotation model.
MaxOld == 2
MaxNew == 2
MaxPolls == 3

Subnets == {"subnet-a", "subnet-b"}

OldIds == <<"i-old1", "i-old2", "i-old3", "i-old4">>
NewIds == <<"i-new1", "i-new2", "i-new3", "i-new4">>

\* The instances of a rotation: ids are distinct, subnets are any.
InstanceLists(ids, n) ==
    UNION {{[i \in 1..k |-> [id |-> ids[i], subnet_id |-> sn[i]]] : sn \in [1..k -> Subnets]} :
           k \in 0..n}

InService == "InService"
OutOfService == "OutOfService"

RotInit ==
    /\ held \in InstanceLists(OldIds, MaxOld)
    /\ lb_instances = {held[i].id : i \in DOMAIN held}
    /\ instances \in InstanceLists(NewIds, MaxNew)
    /\ terminate_outgoing_instances \in BOOLEAN
    /\ old_instances = <<>>
    /\ instance_states = <<>>
    /\ in_service = <<>>
    /\ terminated = {}
    /\ polls = 0
    /\ rpc = "retrieve"

\* Lines 579-581: the outgoing instances are those the load balancer holds;
\* the None of an empty load balancer is the empty list here, which the test
\* at line 587 treats alike.
RetrieveOutgoing ==
    /\ rpc = "retrieve"
    /\ old_instances' = held
    /\ rpc' = "register"
    /\ UNCHANGED <<lb_instances, held, instances, terminate_outgoing_instances,
                   instance_states, in_service, terminated, polls>>

RegisterIncomingMutant ==
    /\ rpc = "register"
    /\ IF instances = <<>>
       THEN rpc' = "raised" /\ UNCHANGED lb_instances
       ELSE /\ lb_instances' = lb_instances \cup {instances[i].id : i \in DOMAIN instances}
            /\ rpc' = "first_poll"
    /\ UNCHANGED <<held, old_instances, instances, terminate_outgoing_instances,
                   instance_states, in_service, terminated, polls>>

\* Line 584, register_instances (lines 511-523): the log line reads
\* instances[-1] before the ELB call, an IndexError on an empty list.
RegisterIncoming ==
    /\ rpc = "register"
    /\ IF instances = <<>>
       THEN rpc' = "raised" /\ UNCHANGED lb_instances
       ELSE /\ lb_instances' = lb_instances \cup {instances[i].id : i \in DOMAIN instances}
            /\ rpc' = IF old_instances # <<>> THEN "first_poll" ELSE "done"
    /\ UNCHANGED <<held, old_instances, instances, terminate_outgoing_instances,
                   instance_states, in_service, terminated, polls>>

\* load_balancer.get_instance_health(instances=[...]): one state per incoming
\* instance asked for, each whatever the load balancer finds.
HealthReports ==
    {[i \in DOMAIN instances |-> [instance_id |-> instances[i].id, state |-> h[i]]] :
        h \in [DOMAIN instances -> {InService, OutOfService}]}

\* Line 596.
FirstPoll ==
    /\ rpc = "first_poll"
    /\ instance_states' \in HealthReports
    /\ polls' = Min(polls + 1, MaxPolls)
    /\ rpc' = "while"
    /\ UNCHANGED <<lb_instances, held, old_instances, instances,
                   terminate_outgoing_instances, in_service, terminated>>

LoopContinuesMutant(states) == states # <<>>

\* 'OutOfService' in [instance_state.state for instance_state in instance_states]
LoopContinues(states) == \E i \in DOMAIN states : states[i].state = OutOfService

RECURSIVE InServiceIds(_)
InServiceIds(states) ==
    IF states = <<>> THEN <<>>
    ELSE IF states[1].state = InService
         THEN <<states[1].instance_id>> \o InServiceIds(Tail(states))
         ELSE InServiceIds(Tail(states))

\* Line 599 when the test fails, and lines 625-627.
LoopExits ==
    /\ rpc = "while"
    /\ ~LoopContinues(instance_states)
    /\ rpc' = "done"
    /\ UNCHANGED <<lb_instances, held, old_instances, instances,
                   terminate_outgoing_instances, instance_states, in_service,
                   terminated, polls>>

\* Lines 599-604: the test holds, the states are refreshed and the for loop
\* is given the ids now in service.
Refresh ==
    /\ rpc = "while"
    /\ LoopContinues(instance_states)
    /\ \E report \in HealthReports :
          /\ instance_states' = report
          /\ in_service' = InServiceIds(report)
    /\ polls' = Min(polls + 1, MaxPolls)
    /\ rpc' = "for"
    /\ UNCHANGED <<lb_instances, held, old_instances, instances,
                   terminate_outgoing_instances, terminated>>

RECURSIVE Remove(_, _)
\* list.remove(x): the first occurrence.
Remove(xs, x) ==
    IF xs = <<>> THEN <<>>
    ELSE IF xs[1] = x THEN Tail(xs) ELSE <<xs[1]>> \o Remove(Tail(xs), x)

NoInstance == [id |-> None, subnet_id |-> None]

FirstInSubnetMutant(olds, subnet) == IF olds = <<>> THEN NoInstance ELSE olds[1]

\* next(old_instance for old_instance in old_instances if ...): the first
\* outgoing instance of the subnet, NoInstance standing for StopIteration.
FirstInSubnet(olds, subnet) ==
    IF \E i \in DOMAIN olds : olds[i].subnet_id = subnet
    THEN olds[CHOOSE i \in DOMAIN olds :
                 /\ olds[i].subnet_id = subnet
                 /\ \A j \in 1..(i - 1) : olds[j].subnet_id # subnet]
    ELSE NoInstance

\* Lines 604-620, one pass of the for loop: deregister_instances (lines
\* 525-537), terminate_instances (lines 563-573), instances.remove.
RotateOne ==
    /\ rpc = "for"
    /\ in_service # <<>>
    /\ LET instance == instances[CHOOSE i \in DOMAIN instances : instances[i].id = in_service[1]]
           old == FirstInSubnet(old_instances, instance.subnet_id)
       IN IF old = NoInstance
          THEN /\ rpc' = "raised"
               /\ UNCHANGED <<lb_instances, terminated, instances, in_service>>
          ELSE /\ lb_instances' = lb_instances \ {old.id}
               /\ terminated' = IF terminate_outgoing_instances
                                THEN terminated \cup {old.id} ELSE terminated
               /\ instances' = Remove(instances, instance)
               /\ in_service' = Tail(in_service)
               /\ rpc' = "for"
    /\ UNCHANGED <<held, old_instances, terminate_outgoing_instances, instance_states, polls>>

\* Line 623: the for loop is over, time.sleep(5), back to the test.
Throttle ==
    /\ rpc = "for"
    /\ in_service = <<>>
    /\ rpc' = "while"
    /\ UNCHANGED <<lb_instances, held, old_instances, instances,
                   terminate_outgoing_instances, instance_states, in_service,
                   terminated, polls>>

RotIdle ==
    /\ lb_instances = {}
    /\ held = <<>>
    /\ old_instances = <<>>
    /\ instances = <<>>
    /\ terminate_outgoing_instances = TRUE
    /\ instance_states = <<>>
    /\ in_service = <<>>
    /\ terminated = {}
    /\ polls = 0
    /\ rpc = "idle"

(***************************************************************************)
(* sky/compute.py: the provisioning functions.  One Python thread runs     *)
(* them: pc is the statement it is at, stack the statements its callers    *)
(* return to.  EC2 and ELB are the environment.                            *)
(***************************************************************************)
VARIABLES
    config_mode,       \* config['CREATION_MODE']
    default_outbound,  \* the list object that is allowed_outbound_traffic's default
    aws,               \* what EC2 and ELB hold
    fault,             \* whether create_tags answers with an error of another code
    pc,
    stack,
    ncalls,            \* top-level calls made so far
    args,              \* the arguments of the top-level call
    calls,             \* the API calls of the top-level call, in order
    last_error,        \* the code of the last error an EC2 call of the function answered with
    ret,               \* what the function that returned last returned
    sg,                \* the locals of create_security_group
    rules,             \* the rules authorised on the group being created
    ci,                \* the locals of create_instance
    nat,               \* the locals of create_nat_instance
    nats,              \* the locals of create_nat_instances
    lb                 \* the locals of create_load_balancer

prvVars == <<config_mode, default_outbound, aws, fault, pc, stack, ncalls, args, calls,
             last_error, ret, sg, rules, ci, nat, nats, lb>>

\* The call log keeps one entry for a call repeated in a polling loop.
Log(op) == IF calls # <<>> /\ Last(calls) = op THEN calls ELSE Append(calls, op)

NoRet == [kind |-> None, name |-> None, existing |-> FALSE, items |-> <<>>]

\* return value: to the caller's next statement, or out of the top-level call.
Return(value) ==
    /\ ret' = value
    /\ IF stack = <<>>
       THEN pc' = "returned" /\ stack' = stack
       ELSE pc' = Head(stack) /\ stack' = Tail(stack)

\* No function of the module catches what its callee raises.
Raise(code) ==
    /\ pc' = "raised"
    /\ stack' = <<>>
    /\ ret' = [NoRet EXCEPT !.kind = "exception", !.name = code]

(***************************************************************************)
(* Strings of the security group rules.                                    *)
(***************************************************************************)
RECURSIVE FormatInt(_)
\* '%d' % n
FormatInt(n) == IF n < 10 THEN <<Digit(n)>> ELSE Append(FormatInt(n \div 10), Digit(n % 10))

IsNumber(s) == s # <<>> /\ \A i \in DOMAIN s : s[i] \in DigitChars

RECURSIVE ParseInt(_)
\* int(s) of a string of digits
ParseInt(s) ==
    IF s = <<>> THEN 0
    ELSE 10 * ParseInt(SubSeq(s, 1, Len(s) - 1)) + (Ord(Last(s)) - Ord("0"))

\* What '$' lets a pattern end at: the end, or just before a final newline.
Ends(s) == {s} \cup (IF s # <<>> /\ Last(s) = "\n" THEN {SubSeq(s, 1, Len(s) - 1)} ELSE {})

\* 25[0-5]|2[0-4]\d|1\d\d|[1-9]?\d
OctetMatches(s) ==
    /\ IsNumber(s)
    /\ \/ Len(s) = 1
       \/ Len(s) = 2 /\ s[1] # "0"
       \/ Len(s) = 3 /\ s[1] = "1"
       \/ Len(s) = 3 /\ s[1] = "2" /\ s[2] \in {"0", "1", "2", "3", "4"}
       \/ Len(s) = 3 /\ s[1] = "2" /\ s[2] = "5" /\ s[3] \in {"0", "1", "2", "3", "4", "5"}

\* ([1-2]?[0-9])|(3[0-2])
PrefixMatches(s) ==
    /\ IsNumber(s)
    /\ \/ Len(s) = 1
       \/ Len(s) = 2 /\ s[1] \in {"1", "2"}
       \/ Len(s) = 2 /\ s[1] = "3" /\ s[2] \in {"0", "1", "2"}

\* is_cidr_ip: re.search('^A.B.C.D/N$', str(target))
IsCidrIp(target) ==
    \E t \in Ends(target) : \E halves \in {Split(t, "/")} :
        /\ Len(halves) = 2
        /\ PrefixMatches(halves[2])
        /\ \E octets \in {Split(halves[1], ".")} :
              Len(octets) = 4 /\ \A i \in 1..4 : OctetMatches(octets[i])

\* re.search(r'^\d+\-\d+$', port)
IsPortRange(port) ==
    \E t \in Ends(port) : \E parts \in {Split(t, "-")} :
        Len(parts) = 2 /\ IsNumber(parts[1]) /\ IsNumber(parts[2])

TCP == <<"T", "C", "P">>
UDP == <<"U", "D", "P">>
HTTP == <<"H", "T", "T", "P">>
HTTPS == <<"H", "T", "T", "P", "S">>
DNS == <<"D", "N", "S">>
AnyIp == <<"0", ".", "0", ".", "0", ".", "0", "/", "0">>

Rule(rule_type, ip_protocol, from_port, to_port, target) ==
    [type |-> rule_type, ip_protocol |-> ip_protocol, from_port |-> from_port,
     to_port |-> to_port,
     cidr_ip |-> IF IsCidrIp(target) THEN target ELSE Missing,
     group |-> IF IsCidrIp(target) THEN Missing ELSE target]

\* Lines 128-135: the protocol name and the port range of a TCP:/UDP: entry;
\* error is the exception of itemgetter(0, 1) on a name without ':'.
PortRange(protocol) ==
    IF SubSeq(protocol, 1, Min(3, Len(protocol))) \notin {TCP, UDP}
    THEN [protocol |-> protocol, from_port |-> <<>>, to_port |-> <<>>, error |-> None]
    ELSE LET fields == Split(protocol, ":")
         IN IF Len(fields) < 2
            THEN [protocol |-> protocol, from_port |-> <<>>, to_port |-> <<>>,
                  error |-> "IndexError"]
            ELSE IF IsPortRange(fields[2])
                 THEN [protocol |-> fields[1], from_port |-> Split(fields[2], "-")[1],
                       to_port |-> Split(fields[2], "-")[2], error |-> None]
                 ELSE [protocol |-> fields[1], from_port |-> fields[2],
                       to_port |-> fields[2], error |-> None]

\* The authorize call of a TCP or UDP entry: int(from_port), int(to_port).
PortRule(rule_type, ip_protocol, range, target) ==
    <<Rule(rule_type, ip_protocol, ParseInt(range.from_port), ParseInt(range.to_port), target)>>

\* Lines 119-162, one pass of the loop: the rules authorised for the entry
\* (protocol, target, rule_type), protocol already upper-cased at line 116.
Authorize(protocol, target, rule_type) ==
    LET range == PortRange(protocol)
        name == range.protocol
    IN IF range.error # None THEN [rules |-> <<>>, error |-> range.error]
       ELSE IF name = HTTP THEN [rules |-> <<Rule(rule_type, "tcp", 80, 80, target)>>, error |-> None]
       ELSE IF name = HTTPS THEN [rules |-> <<Rule(rule_type, "tcp", 443, 443, target)>>, error |-> None]
       ELSE IF name = DNS /\ rule_type = "outbound"
            THEN [rules |-> <<Rule(rule_type, "tcp", 53, 53, target),
                              Rule(rule_type, "udp", 53, 53, target)>>, error |-> None]
       ELSE IF name \in {TCP, UDP}
            THEN IF IsNumber(range.from_port) /\ IsNumber(range.to_port)
                 THEN [rules |-> PortRule(rule_type, IF name = TCP THEN "tcp" ELSE "udp",
                                          range, target), error |-> None]
                 ELSE [rules |-> <<>>, error |-> "ValueError"]
       ELSE [rules |-> <<>>, error |-> None]

\* INBOUND_PORT of sky/database.py, by the engines' registered ports.
InboundPort(backend) ==
    CASE backend = "postgresql" -> 5432
      [] backend = "mysql" -> 3306
      [] backend = "oracle" -> 1521

\* ('TCP:%d' % INBOUND_PORT[database_backend], '0.0.0.0/0')
DatabaseEntry(backend) == <<TCP \o <<":">> \o FormatInt(InboundPort(backend)), AnyIp>>

(***************************************************************************)
(* create_security_group                                                   *)
(***************************************************************************)
ProjectGroupName == "gp-sky-dev"

\* The caller's traffic lists are written as (kind, ports, case, target) and
\* formatted into the (protocol, target) tuples the function is given.
Lower(s) == [i \in DOMAIN s |->
               IF \E k \in DOMAIN UpperCase : UpperCase[k] = s[i]
               THEN LowerCase[CHOOSE k \in DOMAIN UpperCase : UpperCase[k] = s[i]]
               ELSE s[i]]

ProtocolText(e) ==
    LET text == CASE e.kind = "HTTP" -> HTTP
                  [] e.kind = "HTTPS" -> HTTPS
                  [] e.kind = "DNS" -> DNS
                  [] e.kind \in {"TCP", "UDP"} ->
                        (IF e.kind = "TCP" THEN TCP ELSE UDP) \o <<":">> \o FormatInt(e.lo) \o
                        (IF e.hi = e.lo THEN <<>> ELSE <<"-">> \o FormatInt(e.hi))
    IN IF e.lower THEN Lower(text) ELSE text

TargetText(t) ==
    IF t.cidr
    THEN FormatInt(t.ip[1]) \o <<".">> \o FormatInt(t.ip[2]) \o <<".">> \o FormatInt(t.ip[3]) \o
         <<".">> \o FormatInt(t.ip[4]) \o <<"/">> \o FormatInt(t.bits)
    ELSE t.id

Entry(e) == <<ProtocolText(e), TargetText(e.target)>>

Entries(list) == [i \in DOMAIN list |-> Entry(list[i])]

SGArgs(name, backend, inbound, outbound_given, outbound) ==
    [fn |-> "create_security_group", name |-> name, database_backend |-> backend,
     inbound |-> inbound, outbound_given |-> outbound_given, outbound |-> outbound]

NoSG == [name |-> None, backend |-> None, inbound |-> <<>>, outbound_is_default |-> FALSE,
         outbound |-> <<>>, queue |-> <<>>]

\* The frame of a call of create_security_group.
SGFrame(name, backend, inbound, outbound_given, outbound) ==
    [name |-> IF name = None THEN ProjectGroupName ELSE name,
     backend |-> backend,
     inbound |-> inbound,
     outbound_is_default |-> ~outbound_given,
     outbound |-> IF outbound_given THEN outbound ELSE <<>>,
     queue |-> <<>>]

\* allowed_outbound_traffic as the function sees it.
OutboundList == IF sg.outbound_is_default THEN default_outbound ELSE sg.outbound

\* Lines 95-104: in PERMANENT mode an existing group of the name is returned.
\* A group that does not exist is an empty list or InvalidGroup.NotFound.
SGCheckExisting ==
    /\ pc = "sg_check"
    /\ IF config_mode = PERMANENT
       THEN /\ calls' = Log("get_all_security_groups")
            /\ IF sg.name \in aws.groups
               THEN Return([NoRet EXCEPT !.kind = "security_group", !.name = sg.name,
                                         !.existing = TRUE])
               ELSE pc' = "sg_create" /\ UNCHANGED <<stack, ret>>
       ELSE pc' = "sg_create" /\ UNCHANGED <<stack, ret, calls>>
    /\ UNCHANGED <<config_mode, default_outbound, aws, fault, ncalls, args, last_error,
                   sg, rules, ci, nat, nats, lb>>

\* Line 107.
AppendDatabase(list) == IF sg.backend # None THEN Append(list, DatabaseEntry(sg.backend)) ELSE list

\* Lines 106-112: the database entry is appended to the list object, then the
\* group is created; EC2 refuses a second group of the same name.
SGCreate ==
    /\ pc = "sg_create"
    /\ IF sg.outbound_is_default
       THEN default_outbound' = AppendDatabase(default_outbound) /\ sg' = sg
       ELSE sg' = [sg EXCEPT !.outbound = AppendDatabase(@)] /\ default_outbound' = default_outbound
    /\ calls' = Log("create_security_group")
    /\ IF sg.name \in aws.groups
       THEN Raise("InvalidGroup.Duplicate") /\ UNCHANGED <<aws, rules>>
       ELSE /\ aws' = [aws EXCEPT !.groups = @ \cup {sg.name},
                                  !.registered = @ \ {"security_group"},
                                  !.tagged = @ \ {"security_group"}]
            /\ rules' = <<>>
            /\ pc' = "sg_revoke"
            /\ UNCHANGED <<stack, ret>>
    /\ UNCHANGED <<config_mode, fault, ncalls, args, last_error, ci, nat, nats, lb>>

\* Lines 115-117: the default egress rule is revoked and the list the loop
\* runs over is built: inbound entries, then outbound, protocols upper-cased.
SGRevoke ==
    /\ pc = "sg_revoke"
    /\ calls' = Log("revoke_security_group_egress")
    /\ sg' = [sg EXCEPT !.queue =
                 [i \in DOMAIN sg.inbound |-> <<Upper(sg.inbound[i][1]), sg.inbound[i][2], "inbound">>]
                 \o [i \in DOMAIN OutboundList |->
                        <<Upper(OutboundList[i][1]), OutboundList[i][2], "outbound">>]]
    /\ pc' = "sg_rules"
    /\ UNCHANGED <<config_mode, default_outbound, aws, fault, stack, ncalls, args,
                   last_error, ret, rules, ci, nat, nats, lb>>

\* Lines 116-162: one entry of the list.
SGAuthorize ==
    /\ pc = "sg_rules"
    /\ sg.queue # <<>>
    /\ LET entry == Head(sg.queue)
           done == Authorize(entry[1], entry[2], entry[3])
       IN IF done.error # None
          THEN Raise(done.error) /\ UNCHANGED <<sg, rules, calls>>
          ELSE /\ rules' = rules \o done.rules
               /\ calls' = IF done.rules = <<>> THEN calls ELSE Log("authorize")
               /\ sg' = [sg EXCEPT !.queue = Tail(@)]
               /\ UNCHANGED <<pc, stack, ret>>
    /\ UNCHANGED <<config_mode, default_outbound, aws, fault, ncalls, args, last_error,
                   ci, nat, nats, lb>>

SGRulesDone ==
    /\ pc = "sg_rules"
    /\ sg.queue = <<>>
    /\ pc' = "sg_tag"
    /\ UNCHANGED <<config_mode, default_outbound, aws, fault, stack, ncalls, args, calls,
                   last_error, ret, sg, rules, ci, nat, nats, lb>>

\* The error code each tagging loop takes for "not registered yet".
NotRegisteredCode(kind) ==
    CASE kind = "security_group" -> "InvalidID"
      [] kind = "instance" -> "InvalidInstanceID.NotFound"
      [] kind = "network_interface" -> "InvalidNetworkInterfaceID.NotFound"

\* ec2_connection.create_tags on a resource of the kind: the error code it
\* raises, or None when the tags are applied.
CreateTagsAnswer(kind) ==
    IF kind \notin aws.registered THEN NotRegisteredCode(kind)
    ELSE IF fault THEN "UnauthorizedOperation"
    ELSE None

RetriesMutant(kind, code) == FALSE

\* except EC2ResponseError: if error.code == <code>: pass, else: raise.
\* last_error keeps the code of the last error an EC2 call of the function
\* answered with.
Retries(kind, code) == code = NotRegisteredCode(kind)

\* Lines 164-177: one attempt of the tagging loop, then the return.
SGTag ==
    /\ pc = "sg_tag"
    /\ calls' = Log("create_tags(security_group)")
    /\ LET code == CreateTagsAnswer("security_group")
       IN /\ last_error' = IF code = None THEN last_error ELSE code
          /\ IF code = None
             THEN /\ aws' = [aws EXCEPT !.tagged = @ \cup {"security_group"}]
                  /\ Return([NoRet EXCEPT !.kind = "security_group", !.name = sg.name])
             ELSE IF Retries("security_group", code)
             THEN UNCHANGED <<aws, pc, stack, ret>>
             ELSE Raise("EC2ResponseError") /\ UNCHANGED aws
    /\ UNCHANGED <<config_mode, default_outbound, fault, ncalls, args, sg, rules,
                   ci, nat, nats, lb>>

\* EC2 is eventually consistent: a resource just created becomes visible to
\* the other calls at some later time.
BecomesRegistered(kind) ==
    /\ kind \notin aws.registered
    /\ pc \in CASE kind = "security_group" -> {"sg_revoke", "sg_rules", "sg_tag"}
                [] kind = "instance" -> {"ci_tag", "ci_interfaces"}
                [] kind = "attachment" -> {"ci_tag", "ci_interfaces"}
                [] kind = "network_interface" -> {"ci_tag", "ci_interfaces", "ci_tag_eni"}
    /\ aws' = [aws EXCEPT !.registered = @ \cup {kind}]
    /\ UNCHANGED <<config_mode, default_outbound, fault, pc, stack, ncalls, args, calls,
                   last_error, ret, sg, rules, ci, nat, nats, lb>>

(***************************************************************************)
(* create_instance                                                         *)
(***************************************************************************)
CIArgs(name, role, image_id) ==
    [fn |-> "create_instance", name |-> name, role |-> role, image |-> image_id]

NoCI == [name |-> None, role |-> None, image |-> None]

\* The frame of a call of create_instance; a name not given is generated
\* from a random id.
CIFrame(name, role, image_id) ==
    [name |-> IF name = None THEN "ec2-sky-dev-0badcafe" ELSE name,
     role |-> IF role = None THEN "" ELSE role,
     image |-> image_id]

\* Lines 412-418: a given image id must name an image.
CIImage ==
    /\ pc = "ci_image"
    /\ IF ci.image = "unknown"
       THEN /\ calls' = Log("get_image")
            /\ Raise("RuntimeError")
       ELSE /\ calls' = IF ci.image = None THEN calls ELSE Log("get_image")
            /\ pc' = "ci_run"
            /\ UNCHANGED <<stack, ret>>
    /\ UNCHANGED <<config_mode, default_outbound, aws, fault, ncalls, args, last_error,
                   sg, rules, ci, nat, nats, lb>>

\* Lines 434-445: the reservation; the instance starts pending, untagged and
\* not yet visible to the other calls.
CIRun ==
    /\ pc = "ci_run"
    /\ calls' = Log("run_instances")
    /\ aws' = [aws EXCEPT !.registered = @ \ {"instance", "attachment", "network_interface"},
                          !.tagged = @ \ {"instance", "network_interface"},
                          !.launched = @ \cup {ci.name}]
    /\ pc' = "ci_tag"
    /\ UNCHANGED <<config_mode, default_outbound, fault, stack, ncalls, args, last_error,
                   ret, sg, rules, ci, nat, nats, lb>>

\* Lines 447-459: one attempt of the loop that tags the instances; the tags
\* carry the name and the role get_instances filters on.
CITag ==
    /\ pc = "ci_tag"
    /\ calls' = Log("create_tags(instances)")
    /\ LET code == CreateTagsAnswer("instance")
       IN /\ last_error' = IF code = None THEN last_error ELSE code
          /\ IF code = None
             THEN /\ aws' = [aws EXCEPT !.tagged = @ \cup {"instance"}]
                  /\ pc' = "ci_interfaces"
                  /\ UNCHANGED <<stack, ret>>
             ELSE IF Retries("instance", code)
             THEN UNCHANGED <<aws, pc, stack, ret>>
             ELSE Raise("EC2ResponseError") /\ UNCHANGED aws
    /\ UNCHANGED <<config_mode, default_outbound, fault, ncalls, args, sg, rules,
                   ci, nat, nats, lb>>

\* Lines 461-470: one attempt of the loop that fetches the interfaces: an
\* error while the instance is unknown, an empty list until the attachment
\* shows.
CIInterfaces ==
    /\ pc = "ci_interfaces"
    /\ calls' = Log("get_all_network_interfaces")
    /\ last_error' = IF "instance" \notin aws.registered
                     THEN NotRegisteredCode("instance") ELSE last_error
    /\ pc' = IF {"instance", "attachment"} \subseteq aws.registered
             THEN "ci_tag_eni" ELSE "ci_interfaces"
    /\ UNCHANGED <<config_mode, default_outbound, aws, fault, stack, ncalls, args, ret,
                   sg, rules, ci, nat, nats, lb>>

\* Lines 472-483: one attempt of the loop that tags the interfaces.
CITagInterfaces ==
    /\ pc = "ci_tag_eni"
    /\ calls' = Log("create_tags(interfaces)")
    /\ LET code == CreateTagsAnswer("network_interface")
       IN /\ last_error' = IF code = None THEN last_error ELSE code
          /\ IF code = None
             THEN /\ aws' = [aws EXCEPT !.tagged = @ \cup {"network_interface"}]
                  /\ pc' = "ci_refresh"
                  /\ UNCHANGED <<stack, ret>>
             ELSE IF Retries("network_interface", code)
             THEN UNCHANGED <<aws, pc, stack, ret>>
             ELSE Raise("EC2ResponseError") /\ UNCHANGED aws
    /\ UNCHANGED <<config_mode, default_outbound, fault, ncalls, args, sg, rules,
                   ci, nat, nats, lb>>

\* Lines 485-489: the instances are read again, in the state they are in
\* by now, and returned.
CIRefresh(state) ==
    /\ pc = "ci_refresh"
    /\ calls' = Log("get_all_instances")
    /\ aws' = [aws EXCEPT !.instances =
                  @ \cup {[name |-> ci.name, role |-> ci.role, state |-> state]}]
    /\ Return([NoRet EXCEPT !.kind = "instances", !.name = ci.name,
                            !.items = <<[name |-> ci.name, state |-> state]>>])
    /\ UNCHANGED <<config_mode, default_outbound, fault, ncalls, args, last_error,
                   sg, rules, ci, nat, nats, lb>>

\* The traffic lists the callers pass.
Target(cidr, ip, bits, id) == [cidr |-> cidr, ip |-> ip, bits |-> bits, id |-> id]
Anywhere == Target(TRUE, <<0, 0, 0, 0>>, 0, <<>>)

Traffic(kind, lo, hi, lower, target) ==
    [kind |-> kind, lo |-> lo, hi |-> hi, lower |-> lower, target |-> target]

Network == Target(TRUE, <<10, 0, 255, 0>>, 24, <<>>)
Group == Target(FALSE, <<0, 0, 0, 0>>, 0, <<"s", "g", "-", "1", "a">>)

TrafficPool ==
    {Traffic("HTTP", 0, 0, TRUE, Anywhere), Traffic("HTTPS", 0, 0, FALSE, Network),
     Traffic("DNS", 0, 0, FALSE, Anywhere), Traffic("TCP", 80, 80, TRUE, Group),
     Traffic("TCP", 8000, 8080, FALSE, Network), Traffic("UDP", 53, 53, FALSE, Group)}

\* Bound: the entries of the two traffic lists of a call, together.
MaxTraffic == 2

TrafficLists ==
    {l \in SeqsUpTo(TrafficPool, MaxTraffic) \X SeqsUpTo(TrafficPool, MaxTraffic) :
        Len(l[1]) + Len(l[2]) <= MaxTraffic}

GroupNames == {None, "gp-web"}
Backends == {None, "postgresql"}

SGCalls ==
    {SGArgs(n, b, l[1], g, l[2]) :
        n \in GroupNames, b \in Backends, l \in TrafficLists, g \in BOOLEAN} \
    {a \in {SGArgs(n, b, l[1], FALSE, l[2]) :
               n \in GroupNames, b \in Backends, l \in TrafficLists} : a.outbound # <<>>}

\* The calls of create_security_group the module itself makes (lines 240,
\* 315, 387), and one that leaves the outbound list out.
WebTraffic == <<Traffic("HTTP", 0, 0, FALSE, Anywhere), Traffic("HTTPS", 0, 0, FALSE, Anywhere)>>
OutTraffic == WebTraffic \o <<Traffic("DNS", 0, 0, FALSE, Anywhere)>>

(***************************************************************************)
(* create_load_balancer                                                    *)
(***************************************************************************)
ProjectBalancerName == "elb-sky-dev"
BalancerGroupName == "gp-sky-dev-elb"

LBArgs(name, groups_given, ssl_certificate) ==
    [fn |-> "create_load_balancer", name |-> name, groups_given |-> groups_given,
     ssl_certificate |-> ssl_certificate]

LBFrame(name, groups_given, ssl_certificate) ==
    [name |-> IF name = None THEN ProjectBalancerName ELSE name,
     groups_given |-> groups_given,
     ssl_certificate |-> ssl_certificate]

\* The truth value of an optional string argument.
Given(value) == value \notin {None, ""}

Listener(port, protocol, certificate) ==
    [lb_port |-> port, instance_port |-> port, protocol |-> protocol,
     instance_protocol |-> protocol, certificate |-> certificate]

ListenersMutant(ssl_certificate) ==
    <<Listener(80, "HTTP", None), Listener(443, "HTTPS", ssl_certificate)>>

\* Lines 259-264.
Listeners(ssl_certificate) ==
    <<Listener(80, "HTTP", None)>> \o
    (IF Given(ssl_certificate) THEN <<Listener(443, "HTTPS", ssl_certificate)>> ELSE <<>>)

BalancerNames == {b.name : b \in aws.balancers}

\* Lines 217-228.
LBCheckExisting ==
    /\ pc = "lb_check"
    /\ IF config_mode = PERMANENT
       THEN /\ calls' = Log("get_all_load_balancers")
            /\ IF lb.name \in BalancerNames
               THEN Return([NoRet EXCEPT !.kind = "load_balancer", !.name = lb.name,
                                         !.existing = TRUE])
               ELSE pc' = "lb_sg" /\ UNCHANGED <<stack, ret>>
       ELSE pc' = "lb_sg" /\ UNCHANGED <<stack, ret, calls>>
    /\ UNCHANGED <<config_mode, default_outbound, aws, fault, ncalls, args, last_error,
                   sg, rules, ci, nat, nats, lb>>

\* Lines 230-246: without security groups, the VPC is looked up and
\* create_security_group is called with the lists written at line 240.
LBSecurityGroup ==
    /\ pc = "lb_sg"
    /\ IF lb.groups_given
       THEN pc' = "lb_delete" /\ UNCHANGED <<stack, calls, sg, rules>>
       ELSE /\ calls' = Log("get_all_vpcs")
            /\ stack' = <<"lb_delete">> \o stack
            /\ sg' = SGFrame(BalancerGroupName, None, Entries(WebTraffic), TRUE,
                             Entries(OutTraffic))
            /\ rules' = <<>>
            /\ pc' = "sg_check"
    /\ UNCHANGED <<config_mode, default_outbound, aws, fault, ncalls, args, last_error,
                   ret, ci, nat, nats, lb>>

\* Lines 248-257: the balancer of the name is deleted; no error of the call
\* is raised again.
LBDelete ==
    /\ pc = "lb_delete"
    /\ calls' = Log("delete_load_balancer")
    /\ aws' = [aws EXCEPT !.balancers = {b \in @ : b.name # lb.name}]
    /\ pc' = "lb_create"
    /\ UNCHANGED <<config_mode, default_outbound, fault, stack, ncalls, args, last_error,
                   ret, sg, rules, ci, nat, nats, lb>>

\* Lines 259-277.
LBCreate ==
    /\ pc = "lb_create"
    /\ calls' = Log("create_load_balancer")
    /\ aws' = [aws EXCEPT !.balancers =
                  @ \cup {[name |-> lb.name, listeners |-> Listeners(lb.ssl_certificate)]}]
    /\ Return([NoRet EXCEPT !.kind = "load_balancer", !.name = lb.name])
    /\ UNCHANGED <<config_mode, default_outbound, fault, ncalls, args, last_error,
                   sg, rules, ci, nat, nats, lb>>

(***************************************************************************)
(* create_nat_instance                                                     *)
(***************************************************************************)
Zones == {"a", "b"}
NatName == [a |-> "ec2-sky-dev-a-nat", b |-> "ec2-sky-dev-b-nat"]
NatGroupName == [a |-> "gp-sky-dev-a-nat", b |-> "gp-sky-dev-b-nat"]
NatTableName == [a |-> "rtb-sky-dev-a-private", b |-> "rtb-sky-dev-b-private"]
MainTable == "rtb-main"

PublicSubnet(zone) == [zone |-> zone]
PrivateSubnet(zone, id) == [zone |-> zone, id |-> id]

NATArgs(public_subnet, private_subnet, groups_given) ==
    [fn |-> "create_nat_instance", public_subnet |-> public_subnet,
     private_subnet |-> private_subnet, groups_given |-> groups_given]

\* The frame of a call of create_nat_instance: line 303 generates the name.
NATFrame(public_subnet, private_subnet, groups_given) ==
    [name |-> NatName[public_subnet.zone], zone |-> public_subnet.zone,
     private_subnet |-> private_subnet.id, groups_given |-> groups_given,
     state |-> None]

\* get_instances(name, role, state='running'), lines 539-561: the filter
\* on instance-state-name is always set.
GetInstances(name, role, state) ==
    {i \in aws.instances : i.name = name /\ i.role = role /\ i.state = state}

\* Lines 305-310.
NATCheckExisting ==
    /\ pc = "nat_check"
    /\ IF config_mode = PERMANENT
       THEN /\ calls' = Log("get_instances")
            /\ IF GetInstances(nat.name, "nat", "running") # {}
               THEN Return([NoRet EXCEPT !.kind = "instances", !.name = nat.name,
                                         !.existing = TRUE,
                                         !.items = <<[name |-> nat.name, state |-> "running"]>>])
               ELSE pc' = "nat_sg" /\ UNCHANGED <<stack, ret>>
       ELSE pc' = "nat_sg" /\ UNCHANGED <<stack, ret, calls>>
    /\ UNCHANGED <<config_mode, default_outbound, aws, fault, ncalls, args, last_error,
                   sg, rules, ci, nat, nats, lb>>

\* Lines 312-320: the inbound entries name the private subnet's block.
NATSecurityGroup ==
    /\ pc = "nat_sg"
    /\ IF nat.groups_given
       THEN pc' = "nat_image" /\ UNCHANGED <<stack, sg, rules>>
       ELSE /\ stack' = <<"nat_image">> \o stack
            /\ sg' = SGFrame(NatGroupName[nat.zone], None,
                             Entries(<<Traffic("HTTP", 0, 0, FALSE, Network),
                                       Traffic("HTTPS", 0, 0, FALSE, Network)>>),
                             TRUE, Entries(OutTraffic))
            /\ rules' = <<>>
            /\ pc' = "sg_check"
    /\ UNCHANGED <<config_mode, default_outbound, aws, fault, ncalls, args, calls,
                   last_error, ret, ci, nat, nats, lb>>

\* Lines 322-327: get_nat_image, then create_instance(...)[0] is called.
NATInstance ==
    /\ pc = "nat_image"
    /\ calls' = Log("get_all_images")
    /\ stack' = <<"nat_srcdst">> \o stack
    /\ ci' = CIFrame(nat.name, "nat", "ami-nat")
    /\ pc' = "ci_image"
    /\ UNCHANGED <<config_mode, default_outbound, aws, fault, ncalls, args, last_error,
                   ret, sg, rules, nat, nats, lb>>

\* Lines 327-334: the instance object keeps the state create_instance read;
\* source/destination checking is disabled and the route table is created
\* (create_route_table of sky/networking.py).
NATRouteTable ==
    /\ pc = "nat_srcdst"
    /\ nat' = [nat EXCEPT !.state = ret.items[1].state]
    /\ calls' = Append(Log("modify_instance_attribute"), "create_route_table")
    /\ aws' = [aws EXCEPT !.route_tables = @ \cup {NatTableName[nat.zone]}]
    /\ pc' = "nat_wait"
    /\ UNCHANGED <<config_mode, default_outbound, fault, stack, ncalls, args, last_error,
                   ret, sg, rules, ci, nats, lb>>

WaitsMutant(state) == FALSE

\* while (nat_instance.state == 'pending')
Waits(state) == state = "pending"

\* Lines 336-340: one test of the loop; update() reads the state the
\* instance is in by then.
NATWait(seen) ==
    /\ pc = "nat_wait"
    /\ IF Waits(nat.state)
       THEN /\ calls' = Log("update")
            /\ nat' = [nat EXCEPT !.state = seen]
            /\ aws' = [aws EXCEPT !.instances =
                          {i \in @ : i.name # nat.name \/ i.state # nat.state}
                          \cup {[name |-> nat.name, role |-> "nat", state |-> seen]}]
            /\ pc' = pc
       ELSE pc' = "nat_route" /\ UNCHANGED <<calls, nat, aws>>
    /\ UNCHANGED <<config_mode, default_outbound, fault, stack, ncalls, args, last_error,
                   ret, sg, rules, ci, nats, lb>>

\* Lines 342-349.
NATRoute ==
    /\ pc = "nat_route"
    /\ calls' = Log("create_route")
    /\ pc' = "nat_assoc"
    /\ UNCHANGED <<config_mode, default_outbound, aws, fault, stack, ncalls, args,
                   last_error, ret, sg, rules, ci, nat, nats, lb>>

\* Lines 351-368: the association of the private subnet is replaced, or made.
NATAssociate ==
    /\ pc = "nat_assoc"
    /\ LET existing == {a \in aws.associations : a.subnet = nat.private_subnet}
       IN /\ calls' = Append(Log("get_all_route_tables"),
                             IF existing # {} THEN "replace_route_table_association"
                             ELSE "associate_route_table")
          /\ aws' = [aws EXCEPT !.associations =
                        (@ \ existing) \cup {[subnet |-> nat.private_subnet,
                                              table |-> NatTableName[nat.zone]]}]
    /\ pc' = "nat_cleanup"
    /\ UNCHANGED <<config_mode, default_outbound, fault, stack, ncalls, args, last_error,
                   ret, sg, rules, ci, nat, nats, lb>>

\* Lines 370-382: the route tables without association, the main one apart,
\* are deleted and the instance is returned.
NATCleanUp ==
    /\ pc = "nat_cleanup"
    /\ LET empty_route_tables ==
               {t \in aws.route_tables :
                   t # MainTable /\ \A a \in aws.associations : a.table # t}
       IN /\ calls' = IF empty_route_tables = {} THEN Log("get_all_route_tables")
                      ELSE Append(Log("get_all_route_tables"), "delete_route_table")
          /\ aws' = [aws EXCEPT !.route_tables = @ \ empty_route_tables]
    /\ Return([NoRet EXCEPT !.kind = "instance", !.name = nat.name,
                            !.items = <<[name |-> nat.name, state |-> nat.state]>>])
    /\ UNCHANGED <<config_mode, default_outbound, fault, ncalls, args, last_error,
                   sg, rules, ci, nat, nats, lb>>

(***************************************************************************)
(* create_nat_instances                                                    *)
(***************************************************************************)
NATSArgs(public_subnets, private_subnets) ==
    [fn |-> "create_nat_instances", public_subnets |-> public_subnets,
     private_subnets |-> private_subnets]

NATSFrame(public_subnets, private_subnets) ==
    [public_subnets |-> public_subnets, private_subnets |-> private_subnets,
     subnet_pairs |-> <<>>, nat_instances |-> <<>>]

RECURSIVE InsertByZone(_, _)
InsertByZone(x, xs) ==
    IF xs = <<>> THEN <<x>>
    ELSE IF Ord(x.zone) < Ord(Last(xs).zone)
         THEN Append(InsertByZone(x, SubSeq(xs, 1, Len(xs) - 1)), Last(xs))
         ELSE Append(xs, x)

\* sorted(subnets, key=lambda x: x.availability_zone)
RECURSIVE SortedByZone(_)
SortedByZone(xs) ==
    IF xs = <<>> THEN <<>>
    ELSE InsertByZone(Last(xs), SortedByZone(SubSeq(xs, 1, Len(xs) - 1)))

\* list(zip(a, b))
Zip(a, b) == [i \in 1..Min(Len(a), Len(b)) |-> <<a[i], b[i]>>]

MismatchMutant(public_subnets, private_subnets) == FALSE

\* if not len(public_subnets) == len(private_subnets)
Mismatch(public_subnets, private_subnets) == Len(public_subnets) # Len(private_subnets)

\* Lines 281-284.
NATSCheck ==
    /\ pc = "nats_check"
    /\ IF Mismatch(nats.public_subnets, nats.private_subnets)
       THEN Raise("RuntimeError") /\ nats' = nats
       ELSE /\ nats' = [nats EXCEPT !.subnet_pairs =
                           Zip(SortedByZone(nats.public_subnets),
                               SortedByZone(nats.private_subnets))]
            /\ pc' = "nats_loop"
            /\ UNCHANGED <<stack, ret>>
    /\ UNCHANGED <<config_mode, default_outbound, aws, fault, ncalls, args, calls,
                   last_error, sg, rules, ci, nat, lb>>

\* Lines 287-292: the next pair is handed to create_nat_instance, or the
\* list is returned.
NATSLoop ==
    /\ pc = "nats_loop"
    /\ IF nats.subnet_pairs = <<>>
       THEN /\ Return([NoRet EXCEPT !.kind = "nat_instances", !.items = nats.nat_instances])
            /\ UNCHANGED <<nat, nats>>
       ELSE /\ nat' = NATFrame(Head(nats.subnet_pairs)[1], Head(nats.subnet_pairs)[2], FALSE)
            /\ nats' = [nats EXCEPT !.subnet_pairs = Tail(@)]
            /\ stack' = <<"nats_append">> \o stack
            /\ pc' = "nat_check"
            /\ ret' = ret
    /\ UNCHANGED <<config_mode, default_outbound, aws, fault, ncalls, args, calls,
                   last_error, sg, rules, ci, lb>>

\* Line 290.
NATSAppend ==
    /\ pc = "nats_append"
    /\ nats' = [nats EXCEPT !.nat_instances =
                   Append(@, [name |-> ret.name, existing |-> ret.existing])]
    /\ pc' = "nats_loop"
    /\ UNCHANGED <<config_mode, default_outbound, aws, fault, stack, ncalls, args, calls,
                   last_error, ret, sg, rules, ci, nat, lb>>

(***************************************************************************)
(* The callers of the module.                                              *)
(***************************************************************************)
MaxCalls == 2

CanCall == pc \in {"idle", "returned"} /\ ncalls < MaxCalls

\* What every top-level call starts from.
Begin(a, label, f) ==
    /\ CanCall
    /\ ncalls' = ncalls + 1
    /\ args' = a
    /\ pc' = label
    /\ stack' = <<>>
    /\ calls' = <<>>
    /\ last_error' = None
    /\ ret' = NoRet
    /\ fault' = f
    /\ UNCHANGED <<config_mode, default_outbound, aws>>

CallCreateSecurityGroup(a, f) ==
    /\ Begin(a, "sg_check", f)
    /\ sg' = SGFrame(a.name, a.database_backend, Entries(a.inbound), a.outbound_given,
                     Entries(a.outbound))
    /\ rules' = <<>>
    /\ UNCHANGED <<ci, nat, nats, lb>>

CallCreateInstance(a, f) ==
    /\ Begin(a, "ci_image", f)
    /\ ci' = CIFrame(a.name, a.role, a.image)
    /\ UNCHANGED <<sg, rules, nat, nats, lb>>

CallCreateLoadBalancer(a, f) ==
    /\ Begin(a, "lb_check", f)
    /\ lb' = LBFrame(a.name, a.groups_given, a.ssl_certificate)
    /\ UNCHANGED <<sg, rules, ci, nat, nats>>

CallCreateNatInstance(a, f) ==
    /\ Begin(a, "nat_check", f)
    /\ nat' = NATFrame(a.public_subnet, a.private_subnet, a.groups_given)
    /\ UNCHANGED <<sg, rules, ci, nats, lb>>

CallCreateNatInstances(a, f) ==
    /\ Begin(a, "nats_check", f)
    /\ nats' = NATSFrame(a.public_subnets, a.private_subnets)
    /\ UNCHANGED <<sg, rules, ci, nat, lb>>

\* Nothing provisioned yet.
EmptyWorld ==
    [groups |-> {}, balancers |-> {}, instances |-> {}, route_tables |-> {MainTable},
     associations |-> {}, registered |-> {}, tagged |-> {}, launched |-> {}]

NoNAT == [name |-> None, zone |-> None, private_subnet |-> None, groups_given |-> FALSE,
          state |-> None]
NoNATs == [public_subnets |-> <<>>, private_subnets |-> <<>>, subnet_pairs |-> <<>>,
           nat_instances |-> <<>>]
NoLB == [name |-> None, groups_given |-> FALSE, ssl_certificate |-> None]

\* The state of the interpreter before the first call, in the world w.
PrvStart(w) ==
    /\ config_mode \in Modes
    /\ default_outbound = <<>>
    /\ aws = w
    /\ fault = FALSE
    /\ pc = "idle"
    /\ stack = <<>>
    /\ ncalls = 0
    /\ args = [fn |-> None]
    /\ calls = <<>>
    /\ last_error = None
    /\ ret = NoRet
    /\ sg = NoSG
    /\ rules = <<>>
    /\ ci = NoCI
    /\ nat = NoNAT
    /\ nats = NoNATs
    /\ lb = NoLB

PrvIdle ==
    /\ config_mode = EPHEMERAL
    /\ default_outbound = <<>>
    /\ aws = EmptyWorld
    /\ fault = FALSE
    /\ pc = "off"
    /\ stack = <<>>
    /\ ncalls = 0
    /\ args = [fn |-> None]
    /\ calls = <<>>
    /\ last_error = None
    /\ ret = NoRet
    /\ sg = NoSG
    /\ rules = <<>>
    /\ ci = NoCI
    /\ nat = NoNAT
    /\ nats = NoNATs
    /\ lb = NoLB

FewSGCalls ==
    {SGArgs(n, b, WebTraffic, TRUE, OutTraffic) : n \in GroupNames, b \in Backends} \cup
    {SGArgs(n, b, <<>>, FALSE, <<>>) : n \in GroupNames, b \in Backends}

CICalls == {CIArgs(n, r, i) : n \in {None, "ec2-app"}, r \in {None, "web"},
                              i \in {None, "ami-1", "unknown"}}

ResourceKinds == {"security_group", "instance", "attachment", "network_interface"}

\* The values of the variables of a part of the program that is not running.
DecIdle ==
    /\ CREATION_MODE = EPHEMERAL
    /\ wrappers = [f \in Functions |-> <<>>]
    /\ category = None
    /\ frames = <<>>

ArgIdle ==
    /\ argv = None
    /\ apc = "idle"
    /\ valid_arguments = TRUE
    /\ args_key_id = Missing
    /\ args_key = Missing
    /\ reported = {}
    /\ raised = None
    /\ exit_status = None

vars == <<decVars, argVars, imgVars, rotVars, prvVars>>

(***************************************************************************)
(* The specifications: one per part of the program, the rest idle.         *)
(***************************************************************************)
DecNext ==
    \/ \E kind \in Modes, f \in Functions : DecorateFunction(kind, f) /\ UNCHANGED <<argVars, imgVars, rotVars, prvVars>>
    \/ \E kind \in Modes, arg \in {"infrastructure", "settings"}, kw \in BOOLEAN :
          DecorateInfrastructure(kind, arg, kw) /\ UNCHANGED <<argVars, imgVars, rotVars, prvVars>>
    \/ \E f \in Functions : CallFunction(f) /\ UNCHANGED <<argVars, imgVars, rotVars, prvVars>>
    \/ WrapperRuns /\ UNCHANGED <<argVars, imgVars, rotVars, prvVars>>
    \/ BodyStarts /\ UNCHANGED <<argVars, imgVars, rotVars, prvVars>>
    \/ \E m \in Modes : BodyAssignsMode(m) /\ UNCHANGED <<argVars, imgVars, rotVars, prvVars>>
    \/ Returns /\ UNCHANGED <<argVars, imgVars, rotVars, prvVars>>

DecoratorInit == DecInit /\ ArgIdle /\ ImgIdle /\ RotIdle /\ PrvIdle

DecoratorSpec == DecoratorInit /\ [][DecNext]_vars

ArgNext ==
    \/ CheckLogLevel /\ UNCHANGED <<decVars, imgVars, rotVars, prvVars>>
    \/ CheckDirectory /\ UNCHANGED <<decVars, imgVars, rotVars, prvVars>>
    \/ CheckAccountId /\ UNCHANGED <<decVars, imgVars, rotVars, prvVars>>
    \/ CheckKeyId /\ UNCHANGED <<decVars, imgVars, rotVars, prvVars>>
    \/ CheckSecretKey /\ UNCHANGED <<decVars, imgVars, rotVars, prvVars>>
    \/ Verdict /\ UNCHANGED <<decVars, imgVars, rotVars, prvVars>>

ArgsInit == ArgInit /\ DecIdle /\ ImgIdle /\ RotIdle /\ PrvIdle

ArgsSpec == ArgsInit /\ [][ArgNext]_vars

ImgNext ==
    \/ QueryImages /\ UNCHANGED <<decVars, argVars, rotVars, prvVars>>
    \/ PickImage /\ UNCHANGED <<decVars, argVars, rotVars, prvVars>>

ImageInit == ImgInit /\ DecIdle /\ ArgIdle /\ RotIdle /\ PrvIdle

ImageSpec == ImageInit /\ [][ImgNext]_vars

RotNext ==
    \/ RetrieveOutgoing /\ UNCHANGED <<decVars, argVars, imgVars, prvVars>>
    \/ RegisterIncoming /\ UNCHANGED <<decVars, argVars, imgVars, prvVars>>
    \/ FirstPoll /\ UNCHANGED <<decVars, argVars, imgVars, prvVars>>
    \/ LoopExits /\ UNCHANGED <<decVars, argVars, imgVars, prvVars>>
    \/ Refresh /\ UNCHANGED <<decVars, argVars, imgVars, prvVars>>
    \/ RotateOne /\ UNCHANGED <<decVars, argVars, imgVars, prvVars>>
    \/ Throttle /\ UNCHANGED <<decVars, argVars, imgVars, prvVars>>

RotateInit == RotInit /\ DecIdle /\ ArgIdle /\ ImgIdle /\ PrvIdle

\* The interpreter keeps running rotate_instances: a step that can be taken
\* is taken.  What the load balancer reports is left open.
RotateSpec == RotateInit /\ [][RotNext]_vars /\ WF_vars(RotNext)

restVars == <<decVars, argVars, imgVars, rotVars>>

RestIdle == DecIdle /\ ArgIdle /\ ImgIdle /\ RotIdle

\* create_security_group alone, over the traffic lists.
GroupInit == PrvStart(EmptyWorld) /\ RestIdle

GroupNext ==
    \/ \E a \in SGCalls : CallCreateSecurityGroup(a, FALSE) /\ UNCHANGED restVars
    \/ SGCheckExisting /\ UNCHANGED restVars
    \/ SGCreate /\ UNCHANGED restVars
    \/ SGRevoke /\ UNCHANGED restVars
    \/ SGAuthorize /\ UNCHANGED restVars
    \/ SGRulesDone /\ UNCHANGED restVars
    \/ SGTag /\ UNCHANGED restVars
    \/ BecomesRegistered("security_group") /\ UNCHANGED restVars

GroupSpec == GroupInit /\ [][GroupNext]_vars

\* The tagging loops of create_security_group and create_instance.
TagInit == PrvStart(EmptyWorld) /\ RestIdle

\* The statements of the two functions from their tagging loops on.
TagProgram ==
    \/ SGTag
    \/ CITag \/ CIInterfaces \/ CITagInterfaces
    \/ \E state \in {"pending", "running"} : CIRefresh(state)

TagNext ==
    \/ \E a \in FewSGCalls, f \in BOOLEAN : CallCreateSecurityGroup(a, f) /\ UNCHANGED restVars
    \/ \E a \in CICalls, f \in BOOLEAN : CallCreateInstance(a, f) /\ UNCHANGED restVars
    \/ SGCheckExisting /\ UNCHANGED restVars
    \/ SGCreate /\ UNCHANGED restVars
    \/ SGRevoke /\ UNCHANGED restVars
    \/ SGAuthorize /\ UNCHANGED restVars
    \/ SGRulesDone /\ UNCHANGED restVars
    \/ SGTag /\ UNCHANGED restVars
    \/ CIImage /\ UNCHANGED restVars
    \/ CIRun /\ UNCHANGED restVars
    \/ CITag /\ UNCHANGED restVars
    \/ CIInterfaces /\ UNCHANGED restVars
    \/ CITagInterfaces /\ UNCHANGED restVars
    \/ \E state \in {"pending", "running"} : CIRefresh(state) /\ UNCHANGED restVars
    \/ \E kind \in ResourceKinds : BecomesRegistered(kind) /\ UNCHANGED restVars

\* The interpreter keeps running the loop it is in; when EC2 registers a
\* resource is left open.
TagSpec == TagInit /\ [][TagNext]_vars /\ WF_vars(TagProgram /\ UNCHANGED restVars)

\* create_load_balancer, create_nat_instance and create_nat_instances, in
\* worlds where some of what they create is there already.
PrivateId == [a |-> "subnet-1", b |-> "subnet-2"]

OldTable == "rtb-old"

WorldWithBalancer ==
    [EmptyWorld EXCEPT !.groups = {BalancerGroupName},
                       !.balancers = {[name |-> ProjectBalancerName,
                                       listeners |-> Listeners(None)]}]

WorldWithNat(state) ==
    [EmptyWorld EXCEPT !.groups = {NatGroupName["a"]},
                       !.instances = {[name |-> NatName["a"], role |-> "nat", state |-> state]},
                       !.route_tables = {MainTable, OldTable},
                       !.associations = {[subnet |-> PrivateId["a"], table |-> OldTable]}]

Worlds == {EmptyWorld, WorldWithBalancer, WorldWithNat("running"), WorldWithNat("stopped")}

LBCalls == {LBArgs(n, g, c) : n \in {None, "elb-web"}, g \in BOOLEAN,
                              c \in {None, "", "arn:aws:iam::cert"}}

NATCalls == {NATArgs(PublicSubnet(z), PrivateSubnet(z, PrivateId[z]), g) :
                z \in Zones, g \in BOOLEAN}

\* Bound: the subnets of each list given to create_nat_instances.
MaxPairs == 2

NATSCalls ==
    {NATSArgs(pub, prv) :
        pub \in SeqsUpTo({PublicSubnet(z) : z \in Zones}, MaxPairs),
        prv \in SeqsUpTo({PrivateSubnet(z, PrivateId[z]) : z \in Zones}, MaxPairs)}

\* One call in a run: what earlier runs have left is in the world.
FirstCall == ncalls = 0

ProvisionInit == (\E w \in Worlds : PrvStart(w)) /\ RestIdle

ProvisionNext ==
    \/ \E a \in LBCalls, f \in BOOLEAN : FirstCall /\ CallCreateLoadBalancer(a, f) /\ UNCHANGED restVars
    \/ \E a \in NATCalls, f \in BOOLEAN : FirstCall /\ CallCreateNatInstance(a, f) /\ UNCHANGED restVars
    \/ \E a \in NATSCalls, f \in BOOLEAN : FirstCall /\ CallCreateNatInstances(a, f) /\ UNCHANGED restVars
    \/ LBCheckExisting /\ UNCHANGED restVars
    \/ LBSecurityGroup /\ UNCHANGED restVars
    \/ LBDelete /\ UNCHANGED restVars
    \/ LBCreate /\ UNCHANGED restVars
    \/ NATSCheck /\ UNCHANGED restVars
    \/ NATSLoop /\ UNCHANGED restVars
    \/ NATSAppend /\ UNCHANGED restVars
    \/ NATCheckExisting /\ UNCHANGED restVars
    \/ NATSecurityGroup /\ UNCHANGED restVars
    \/ NATInstance /\ UNCHANGED restVars
    \/ NATRouteTable /\ UNCHANGED restVars
    \/ \E seen \in {"pending", "running"} : NATWait(seen) /\ UNCHANGED restVars
    \/ NATRoute /\ UNCHANGED restVars
    \/ NATAssociate /\ UNCHANGED restVars
    \/ NATCleanUp /\ UNCHANGED restVars
    \/ SGCheckExisting /\ UNCHANGED restVars
    \/ SGCreate /\ UNCHANGED restVars
    \/ SGRevoke /\ UNCHANGED restVars
    \/ SGAuthorize /\ UNCHANGED restVars
    \/ SGRulesDone /\ UNCHANGED restVars
    \/ SGTag /\ UNCHANGED restVars
    \/ CIImage /\ UNCHANGED restVars
    \/ CIRun /\ UNCHANGED restVars
    \/ CITag /\ UNCHANGED restVars
    \/ CIInterfaces /\ UNCHANGED restVars
    \/ CITagInterfaces /\ UNCHANGED restVars
    \/ \E state \in {"pending", "running"} : CIRefresh(state) /\ UNCHANGED restVars
    \/ \E kind \in ResourceKinds : BecomesRegistered(kind) /\ UNCHANGED restVars

ProvisionSpec == ProvisionInit /\ [][ProvisionNext]_vars

\* What the claim calls valid, on the values parse_arguments is given.
ExactlyOf(s, n, class) == s # Missing /\ Len(s) = n /\ \A i \in 1..n : s[i] \in class

EffectiveKeyId == IF Truthy(argv.key_id) \/ ~ConfigBound THEN argv.key_id ELSE argv.config.key_id
EffectiveKey == IF Truthy(argv.key) \/ ~ConfigBound THEN argv.key ELSE argv.config.key

AllValid ==
    /\ Upper(argv.loglevel) \in LogLevels
    /\ argv.isdir
    /\ ExactlyOf(argv.account_id, AccountIdLen, DigitChars)
    /\ ExactlyOf(EffectiveKeyId, KeyIdLen, AlnumChars)
    /\ ExactlyOf(EffectiveKey, SecretKeyLen, SecretChars)

ArgsEnded == apc \in {"returned", "exited", "raised"}

\* C7: parse_arguments returns without 'Invalid arguments given.' exactly when
\* every argument is valid; otherwise (a missing value included) it has
\* reported an invalid argument and, as the main program, exits with status 1.
C7_AcceptsExactlyValid ==
    ArgsEnded =>
        /\ (apc = "returned" /\ "Invalid arguments given." \notin reported) <=> AllValid
        /\ ~AllValid => /\ reported \ {"Could not read configuration file"} # {}
                        /\ argv.main => exit_status = 1

\* C8: whenever the function wrapped by a bare @ephemeral (@permanent) is
\* about to start, core.CREATION_MODE is EPHEMERAL (PERMANENT), whatever the
\* mode was before the call and whatever calls preceded it.
C8_ModeSetBeforeBody ==
    \A i \in 1..Len(frames) :
        (frames[i].at = "start" /\ frames[i].by # None) => CREATION_MODE = frames[i].by

\* A nested call: an ephemeral function starts while a permanent one is running
\* and the mode before the call was PERMANENT.
C8_Witness ==
    /\ Len(frames) >= 4
    /\ frames[2].by = PERMANENT /\ frames[2].at = "running"
    /\ Last(frames).by = EPHEMERAL /\ Last(frames).at = "start" /\ Last(frames).level = 0

\* d is not later than e: by year, then month, then patch.
DateLeq(d, e) ==
    \/ d[1] < e[1]
    \/ d[1] = e[1] /\ d[2] < e[2]
    \/ d[1] = e[1] /\ d[2] = e[2] /\ d[3] <= e[3]

\* C5: the image get_nat_image returns is a candidate, and no candidate has a
\* later date than it.
C5_MostRecentImage ==
    ipc = "returned" =>
        /\ \E i \in DOMAIN images : images[i] = image
        /\ \A i \in DOMAIN images : DateLeq(images[i].date, image.date)

\* Two candidates of different dates, the later one listed first.
C5_Witness ==
    /\ ipc = "returned"
    /\ Len(images) >= 2
    /\ ~DateLeq(images[1].date, images[2].date)

RotEnded == rpc \in {"done", "raised"}

\* C1 as stated: whatever the load balancer reports, rotate_instances ends
\* after finitely many polls.
C1_AlwaysEnds == <>RotEnded

\* A poll has answered and reports no incoming instance out of service.
CleanPoll ==
    /\ rpc \in {"while", "for"}
    /\ \A i \in DOMAIN instance_states : instance_states[i].state = InService

\* C1 as amended: once a poll reports no incoming instance OutOfService,
\* rotate_instances polls no more and ends.
C1_EndsOnceCleanPoll ==
    /\ [][CleanPoll => polls' = polls]_vars
    /\ (CleanPoll ~> RotEnded)

\* A rotation that has polled more than once and returned.
C1_Witness == rpc = "done" /\ polls >= 2 /\ terminated # {}

\* The rules the claim gives for one entry of a traffic list.
ClaimedRules(e, rule_type) ==
    LET cidr == IF e.target.cidr THEN TargetText(e.target) ELSE Missing
        group == IF e.target.cidr THEN Missing ELSE e.target.id
        R(proto, lo, hi) == [type |-> rule_type, ip_protocol |-> proto, from_port |-> lo,
                             to_port |-> hi, cidr_ip |-> cidr, group |-> group]
    IN CASE e.kind = "HTTP" -> <<R("tcp", 80, 80)>>
         [] e.kind = "HTTPS" -> <<R("tcp", 443, 443)>>
         [] e.kind = "TCP" -> <<R("tcp", e.lo, e.hi)>>
         [] e.kind = "UDP" -> <<R("udp", e.lo, e.hi)>>
         [] e.kind = "DNS" -> IF rule_type = "outbound"
                              THEN <<R("tcp", 53, 53), R("udp", 53, 53)>> ELSE <<>>

RECURSIVE ClaimedRulesOf(_, _)
ClaimedRulesOf(list, rule_type) ==
    IF list = <<>> THEN <<>>
    ELSE ClaimedRules(list[1], rule_type) \o ClaimedRulesOf(Tail(list), rule_type)

NewGroupReturned ==
    /\ pc = "returned"
    /\ args.fn = "create_security_group"
    /\ ~ret.existing

\* C4: the rules of a new group are the translation of the inbound list and
\* then of the outbound list the caller gave, in list order (stated for the
\* calls without database_backend, which adds an entry of its own).
C4_RulesTranslateLists ==
    (NewGroupReturned /\ args.database_backend = None) =>
        rules = ClaimedRulesOf(args.inbound, "inbound")
                \o ClaimedRulesOf(args.outbound, "outbound")

\* The same where the default list holds what its definition says, [].
C4_RulesTranslateFreshLists ==
    (NewGroupReturned /\ args.database_backend = None
        /\ (args.outbound_given \/ default_outbound = <<>>)) =>
        rules = ClaimedRulesOf(args.inbound, "inbound")
                \o ClaimedRulesOf(args.outbound, "outbound")

\* The tagging loop of each kind of resource, and what the function returns.
TagLoop(kind) ==
    CASE kind = "security_group" -> "sg_tag"
      [] kind = "instance" -> "ci_tag"
      [] kind = "network_interface" -> "ci_tag_eni"

TaggedKinds == {"security_group", "instance", "network_interface"}

\* An attempt that failed with the code: nothing of EC2 changed and the
\* code is the last error.
AttemptFailsUnregistered(kind) ==
    /\ pc = TagLoop(kind)
    /\ kind \notin aws.registered
    /\ aws' = aws
    /\ last_error' = NotRegisteredCode(kind)

Needed(kind) ==
    IF kind = "security_group" THEN {"security_group"}
    ELSE {"instance", "attachment", "network_interface"}

ReturnedResource(kind) ==
    /\ pc = "returned"
    /\ ret.kind = IF kind = "security_group" THEN "security_group" ELSE "instances"
    /\ kind \in aws.tagged

\* C2: an attempt of a tagging loop that fails with the loop's "not yet
\* registered" code leaves the function in the same loop (where it attempts
\* again); once the resource is registered, and create_tags has no other
\* error to answer with, the tags are applied, and with the resources of the
\* call registered the function returns the resource.
C2_TagRetriedUntilRegistered ==
    /\ [][\A kind \in TaggedKinds : AttemptFailsUnregistered(kind) => pc' = TagLoop(kind)]_vars
    /\ \A kind \in TaggedKinds :
          /\ (pc = TagLoop(kind) /\ kind \in aws.registered /\ ~fault)
                ~> (kind \in aws.tagged /\ pc # TagLoop(kind))
          /\ (pc = TagLoop(kind) /\ Needed(kind) \subseteq aws.registered /\ ~fault)
                ~> ReturnedResource(kind)

\* create_instance has returned the instances after an attempt to tag the
\* interfaces had failed with InvalidNetworkInterfaceID.NotFound.
C2_Witness ==
    /\ pc = "returned"
    /\ args.fn = "create_instance"
    /\ ret.kind = "instances"
    /\ last_error = NotRegisteredCode("network_interface")
    /\ {"instance", "network_interface"} \subseteq aws.tagged

Called(op) == \E i \in DOMAIN calls : calls[i] = op

\* Every call of b comes after a call of a.
Before(a, b) == \A i \in DOMAIN calls : calls[i] = b => \E j \in 1..(i - 1) : calls[j] = a

Associated == Called("associate_route_table") \/ Called("replace_route_table_association")

\* C3: create_nat_instance launches and tags the instance first; the route
\* to it is created only once the instance has been seen in a state other
\* than pending; the private subnet is associated only when that route
\* exists; route tables are deleted only after the association.
C3_NatStepsInOrder ==
    args.fn = "create_nat_instance" =>
        /\ Before("run_instances", "create_tags(instances)")
        /\ Before("create_tags(instances)", "create_route")
        /\ Called("create_route") => nat.state \notin {None, "pending"} /\ "instance" \in aws.tagged
        /\ Before("create_route", "associate_route_table")
        /\ Before("create_route", "replace_route_table_association")
        /\ Called("delete_route_table") => Associated
        /\ (pc = "returned" /\ ~ret.existing) =>
              Called("run_instances") /\ Called("create_route") /\ Associated

\* create_nat_instance has returned a new instance it had to wait for, and
\* has deleted the route table the subnet was associated with before.
C3_Witness ==
    /\ args.fn = "create_nat_instance"
    /\ pc = "returned"
    /\ ~ret.existing
    /\ Called("update")
    /\ Called("delete_route_table")

\* C9: with lists of different lengths create_nat_instances raises
\* RuntimeError and has made no call; with lists of equal length what it
\* returns has one result for each pair.
C9_NatPerPair ==
    (args.fn = "create_nat_instances" /\ pc \in {"returned", "raised"}) =>
        IF Len(args.public_subnets) # Len(args.private_subnets)
        THEN pc = "raised" /\ ret.name = "RuntimeError" /\ calls = <<>>
        ELSE pc = "returned" => Len(ret.items) = Len(args.public_subnets)

\* Two pairs of subnets have given two NAT results.
C9_Witness ==
    /\ args.fn = "create_nat_instances"
    /\ pc = "returned"
    /\ Len(ret.items) = 2
    /\ Called("create_route")

\* Lists of different lengths have been refused.
C9_WitnessRefused ==
    /\ args.fn = "create_nat_instances"
    /\ pc = "raised"
    /\ Len(args.public_subnets) = 2
    /\ Len(args.private_subnets) = 1

CreatedBalancer ==
    /\ args.fn = "create_load_balancer"
    /\ pc = "returned"
    /\ ~ret.existing

ListenersOf(name) == (CHOOSE b \in aws.balancers : b.name = name).listeners

Port(l) == <<l.lb_port, l.instance_port, l.protocol>>

\* C10: the balancer create_load_balancer has created listens on HTTP 80->80,
\* on HTTPS 443->443 exactly when a certificate was given, and on nothing else.
C10_Listeners ==
    CreatedBalancer =>
        LET listeners == ListenersOf(ret.name)
            ports == {Port(listeners[i]) : i \in DOMAIN listeners}
        IN /\ <<80, 80, "HTTP">> \in ports
           /\ <<443, 443, "HTTPS">> \in ports <=> args.ssl_certificate \notin {None, ""}
           /\ ports \subseteq {<<80, 80, "HTTP">>, <<443, 443, "HTTPS">>}
           /\ Len(listeners) = Cardinality(ports)

\* A balancer has been created with a certificate.
C10_Witness ==
    /\ CreatedBalancer
    /\ args.ssl_certificate = "arn:aws:iam::cert"
    /\ Len(ListenersOf(ret.name)) = 2

\* A resource of the name the function asks for exists.
GroupExists == sg.name \in aws.groups
BalancerExists == lb.name \in BalancerNames
NatExists == \E i \in aws.instances : i.name = nat.name /\ i.role = "nat"

\* The existing resource is returned to the caller and nothing but the
\* look-up was called.
Reuses(kind, name, lookup) ==
    /\ ret'.existing /\ ret'.kind = kind /\ ret'.name = name
    /\ pc' = IF stack = <<>> THEN "returned" ELSE Head(stack)
    /\ calls' = Log(lookup)
    /\ aws' = aws

\* C6: in PERMANENT mode a function whose resource exists returns it and
\* calls nothing that changes EC2; in EPHEMERAL mode the look-up is not made.
C6_PermanentReuses ==
    [][/\ (pc = "sg_check" /\ config_mode = PERMANENT /\ GroupExists)
            => Reuses("security_group", sg.name, "get_all_security_groups")
       /\ (pc = "lb_check" /\ config_mode = PERMANENT /\ BalancerExists)
            => Reuses("load_balancer", lb.name, "get_all_load_balancers")
       /\ (pc = "nat_check" /\ config_mode = PERMANENT /\ NatExists)
            => Reuses("instances", nat.name, "get_instances")
       /\ (pc \in {"sg_check", "lb_check", "nat_check"} /\ config_mode = EPHEMERAL)
            => calls' = calls]_vars

\* The same, for a NAT instance that is running.
C6_PermanentReusesRunning ==
    [][/\ (pc = "sg_check" /\ config_mode = PERMANENT /\ GroupExists)
            => Reuses("security_group", sg.name, "get_all_security_groups")
       /\ (pc = "lb_check" /\ config_mode = PERMANENT /\ BalancerExists)
            => Reuses("load_balancer", lb.name, "get_all_load_balancers")
       /\ (pc = "nat_check" /\ config_mode = PERMANENT
                /\ GetInstances(nat.name, "nat", "running") # {})
            => Reuses("instances", nat.name, "get_instances")
       /\ (pc \in {"sg_check", "lb_check", "nat_check"} /\ config_mode = EPHEMERAL)
            => calls' = calls]_vars

\* The outgoing instances a step takes from the load balancer or has EC2
\* terminate.
Outgoing == (lb_instances \ lb_instances') \cup (terminated' \ terminated)

OldIdsHeld == {old_instances[i].id : i \in DOMAIN old_instances}

SubnetOfOld(id) == old_instances[CHOOSE i \in DOMAIN old_instances : old_instances[i].id = id].subnet_id

\* The latest answer of the load balancer has an incoming instance of the
\* subnet in service.
ReportedInService(subnet) ==
    \E i \in DOMAIN instance_states, j \in DOMAIN instances :
        /\ instance_states[i].state = InService
        /\ instances[j].id = instance_states[i].instance_id
        /\ instances[j].subnet_id = subnet

\* C11: a step deregisters or terminates only outgoing instances, and only
\* such whose subnet has an incoming instance the load balancer has reported
\* InService; none while every incoming instance of its subnet is reported
\* OutOfService.
C11_DeregisteredAfterInService ==
    [][\A id \in Outgoing : id \in OldIdsHeld /\ ReportedInService(SubnetOfOld(id))]_vars

\* An outgoing instance has been terminated while another incoming instance
\* is still reported OutOfService and an outgoing instance is still held.
C11_Witness ==
    /\ rpc = "for"
    /\ terminated # {}
    /\ \E i \in DOMAIN instance_states : instance_states[i].state = OutOfService
    /\ \E id \in OldIdsHeld : id \in lb_instances

IncomingIds == {instances[i].id : i \in DOMAIN instances}

HeldIds == {held[i].id : i \in DOMAIN held}

Registered == rpc \in {"first_poll", "while", "for", "done"}

\* C12: the outgoing instances are those the load balancer held when the
\* incoming ones were about to be registered; an outgoing instance is only
\* deregistered or terminated with the incoming instances registered; with
\* nothing held, there is no poll, no deregistration and no termination, and
\* the rotation that returns has registered the incoming instances.
C12_RegisteredBeforeRotation ==
    /\ [](rpc = "register" => old_instances = held /\ OldIdsHeld = lb_instances)
    /\ [](Registered => old_instances = held /\ IncomingIds \subseteq lb_instances)
    /\ [][Outgoing # {} =>
            /\ rpc \notin {"retrieve", "register"}
            /\ IncomingIds \subseteq lb_instances
            /\ Outgoing \subseteq HeldIds]_vars
    /\ [](held = <<>> =>
            /\ polls = 0 /\ instance_states = <<>> /\ terminated = {}
            /\ rpc = "done" => lb_instances = IncomingIds /\ IncomingIds # {})
    /\ [][held = <<>> => lb_instances \subseteq lb_instances']_vars

\* An outgoing instance has left the load balancer, which holds the
\* incoming instances.
C12_Witness ==
    /\ Registered
    /\ HeldIds \ lb_instances # {}
    /\ IncomingIds # {}
    /\ IncomingIds \subseteq lb_instances

\* With nothing held the incoming instances were registered and the
\* rotation has returned.
C12_WitnessNothingHeld ==
    /\ held = <<>>
    /\ rpc = "done"
    /\ lb_instances # {}

====
